---- MODULE Spec2Model ----
(***************************************************************************)
(* Model of server.js: an Express backend with a startup configuration     *)
(* check and the handlers /api/health, /api/news, /api/summarize,          *)
(* /api/speak and /api/wordmap.                                            *)
(*                                                                         *)
(* Strings are sequences of characters; a character is a one-character     *)
(* string, or a name such as "U+05D0" for a character outside ASCII.       *)
(* JavaScript values are records [t, nan, v, s]: undefined, a number       *)
(* (NaN or an integer v), a string s, or an object that String() cannot    *)
(* convert.                                                                *)
(***************************************************************************)
EXTENDS Integers, Sequences, FiniteSets, TLC

\* ---------------------------------------------------------------- bounds
MaxCountLen == 3     \* length of the `count` query string
MaxTextLen == 3      \* length of a /api/speak text in the text scenario
MaxWordsLen == 4     \* length of a /api/speak text in the rate and pause scenarios
RateSlack == 6       \* rates range over -RateSlack .. 140 + RateSlack
PauseSlack == 3      \* pauses range around 0 and around 2000 by this much
MaxContentLen == 3   \* length of a completion text of /api/summarize
MaxSentenceLen == 3  \* length of a /api/wordmap sentence
MaxRawLen == 4       \* number of lexemes of a /api/wordmap provider reply

\* ------------------------------------------------------ JavaScript values
Undef == [t |-> "undefined", nan |-> FALSE, v |-> 0, s |-> <<>>]
NaN == [t |-> "number", nan |-> TRUE, v |-> 0, s |-> <<>>]
JNum(n) == [t |-> "number", nan |-> FALSE, v |-> n, s |-> <<>>]
JStr(str) == [t |-> "string", nan |-> FALSE, v |-> 0, s |-> str]
\* An object whose own toString property is not a function: String(x) throws.
Unprintable == [t |-> "object", nan |-> FALSE, v |-> 0, s |-> <<>>]

\* ToBoolean: undefined, NaN, 0 and "" are falsy.
Truthy(x) ==
  CASE x.t = "undefined" -> FALSE
    [] x.t = "number" -> ~x.nan /\ x.v # 0
    [] x.t = "object" -> TRUE
    [] OTHER -> x.s # <<>>

\* x || d
Or(x, d) == IF Truthy(x) THEN x ELSE d

\* All sequences over alphabet of length at most n.
RECURSIVE StrsUpTo(_, _)
StrsUpTo(alphabet, n) ==
  IF n = 0 THEN {<<>>}
  ELSE LET shorter == StrsUpTo(alphabet, n - 1)
       IN shorter \cup {Append(w, c) : w \in {x \in shorter : Len(x) = n - 1}, c \in alphabet}

\* WhiteSpace and LineTerminator characters of the modelled alphabets (\s).
IsSpace(c) == c \in {" ", "\n", "\t"}

RECURSIVE TrimStart(_)
TrimStart(str) ==
  IF str # <<>> /\ IsSpace(Head(str)) THEN TrimStart(Tail(str)) ELSE str

RECURSIVE TrimEnd(_)
TrimEnd(str) ==
  IF str # <<>> /\ IsSpace(str[Len(str)])
  THEN TrimEnd(SubSeq(str, 1, Len(str) - 1))
  ELSE str

\* String.prototype.trim
Trim(str) == TrimEnd(TrimStart(str))

DigitChars == <<"0", "1", "2", "3", "4", "5", "6", "7", "8", "9">>
IsDigit(c) == \E i \in 1..10 : DigitChars[i] = c
DigitVal(c) == (CHOOSE i \in 1..10 : DigitChars[i] = c) - 1

IsDigits(str) == str # <<>> /\ \A i \in 1..Len(str) : IsDigit(str[i])

RECURSIVE DigitsVal(_)
DigitsVal(str) ==
  IF str = <<>> THEN 0
  ELSE 10 * DigitsVal(SubSeq(str, 1, Len(str) - 1)) + DigitVal(str[Len(str)])

\* Number(string): StringToNumber on the modelled alphabets (whitespace, sign,
\* decimal digits and other characters): blank is 0, a signed decimal integer is
\* its value, anything else is NaN.
StringToNumber(str) ==
  LET t == Trim(str)
  IN IF t = <<>> THEN JNum(0)
     ELSE IF IsDigits(t) THEN JNum(DigitsVal(t))
     ELSE IF t[1] = "-" /\ IsDigits(Tail(t)) THEN JNum(0 - DigitsVal(Tail(t)))
     ELSE NaN

\* Number(x)
Number(x) ==
  CASE x.t = "undefined" -> NaN
    [] x.t = "number" -> x
    [] OTHER -> StringToNumber(x.s)

\* Math.min and Math.max of two numbers: NaN if either is NaN.
MathMin(a, b) ==
  IF a.nan \/ b.nan THEN NaN ELSE IF a.v <= b.v THEN a ELSE b

MathMax(a, b) ==
  IF a.nan \/ b.nan THEN NaN ELSE IF a.v >= b.v THEN a ELSE b

RECURSIVE NatToString(_)
NatToString(n) ==
  IF n < 10 THEN <<DigitChars[n + 1]>>
  ELSE Append(NatToString(n \div 10), DigitChars[(n % 10) + 1])

\* Number-to-string conversion of an integer or NaN.
NumberToString(x) ==
  IF x.nan THEN <<"N", "a", "N">>
  ELSE IF x.v < 0 THEN <<"-">> \o NatToString(0 - x.v)
  ELSE NatToString(x.v)

\* String(x)
ToStr(x) ==
  CASE x.t = "undefined" -> <<"u", "n", "d", "e", "f", "i", "n", "e", "d">>
    [] x.t = "number" -> NumberToString(x)
    [] OTHER -> x.s

\* String(s).trim().split(/\s+/).filter(Boolean)
RECURSIVE SplitWords(_)
SplitWords(str) ==
  LET t == TrimStart(str)
  IN IF t = <<>> THEN <<>>
     ELSE LET firstSpace ==
                IF \E i \in 1..Len(t) : IsSpace(t[i])
                THEN CHOOSE i \in 1..Len(t) :
                       IsSpace(t[i]) /\ \A j \in 1..(i - 1) : ~IsSpace(t[j])
                ELSE Len(t) + 1
          IN <<SubSeq(t, 1, firstSpace - 1)>> \o SplitWords(SubSeq(t, firstSpace, Len(t)))

\* Array.prototype.join
RECURSIVE Join(_, _)
Join(parts, sep) ==
  IF parts = <<>> THEN <<>>
  ELSE IF Len(parts) = 1 THEN parts[1]
  ELSE parts[1] \o sep \o Join(Tail(parts), sep)

\* ----------------------------------------------------------------- state
VARIABLES
  env,     \* process.env restricted to the required names
  proc,    \* "loading", "exited" or "listening"
  diag,    \* names printed by console.error at startup
  req,     \* the request being handled
  pc,      \* "idle", "pending" (awaiting the outbound call) or "done"
  calls,   \* outbound provider calls started for the request
  reply,   \* what the provider answered
  res      \* responses sent for the request

vars == <<env, proc, diag, req, pc, calls, reply, res>>

NoRequest == [ep |-> "none"]
NoReply == [kind |-> "none"]

\* res.status(status).json({error}) / res.json(data) / res.send(data)
Response(status, error, data) == [status |-> status, error |-> error, data |-> data]

\* --------------------------------------------------------------- startup
required == <<"NEWSAPI_KEY", "OPENAI_API_KEY", "AZURE_SPEECH_KEY", "AZURE_SPEECH_REGION">>
RequiredNames == {required[i] : i \in 1..Len(required)}

EnvValues == {Undef, JStr(<<>>), JStr(<<"k">>)}

\* required.filter((k) => !process.env[k])
missingMutant(e) == SelectSeq(required, LAMBDA k : e[k] = Undef)
missing(e) == SelectSeq(required, LAMBDA k : ~Truthy(e[k]))

Init ==
  /\ env \in [RequiredNames -> EnvValues]
  /\ proc = "loading"
  /\ diag = <<>>
  /\ req = NoRequest
  /\ pc = "idle"
  /\ calls = <<>>
  /\ reply = NoReply
  /\ res = <<>>

\* Module evaluation: the configuration check, then app.listen.
Startup ==
  /\ proc = "loading"
  /\ IF Len(missing(env)) # 0
     THEN /\ diag' = missing(env)
          /\ proc' = "exited"
     ELSE /\ diag' = diag
          /\ proc' = "listening"
  /\ UNCHANGED <<env, req, pc, calls, reply, res>>

\* A handler runs only in a listening process, one request at a time: the
\* handlers share no mutable state, each works on its own req and res.
Accepting == proc = "listening" /\ pc = "idle"

\* The response has been delivered; the next request may be modelled.
Finish ==
  /\ pc = "done"
  /\ req' = NoRequest
  /\ pc' = "idle"
  /\ calls' = <<>>
  /\ reply' = NoReply
  /\ res' = <<>>
  /\ UNCHANGED <<env, proc, diag>>

\* app.get("/api/health")
Health ==
  /\ Accepting
  /\ req' = [ep |-> "health"]
  /\ res' = <<Response(200, "", "OK")>>
  /\ pc' = "done"
  /\ UNCHANGED <<env, proc, diag, calls, reply>>

\* ------------------------------------------------------------------ news
India == <<"I", "n", "d", "i", "a">>

\* Math.max(1, Math.min(20, Number(req.query.count || 3)))
NewsCount(query) == MathMax(JNum(1), MathMin(JNum(20), Number(Or(query.count, JNum(3)))))

\* The params of axios.get (the 7-day `from` date depends on the clock only).
NewsCall(query) ==
  [api |-> "news", pageSize |-> NewsCount(query), q |-> ToStr(Or(query.q, JStr(India)))]

CountChars == {"0", "1", "2", "3", "9", "-", "z", " "}
CountInputs == {Undef} \cup {JStr(str) : str \in StrsUpTo(CountChars, MaxCountLen)}
QInputs == {Undef, JStr(<<"x">>)}

NewsRequest(counts) ==
  /\ Accepting
  /\ \E c \in counts, q \in QInputs :
       /\ req' = [ep |-> "news", query |-> [count |-> c, q |-> q]]
       /\ calls' = <<NewsCall([count |-> c, q |-> q])>>
  /\ pc' = "pending"
  /\ UNCHANGED <<env, proc, diag, reply, res>>

\* axios.get resolved; response.data is an object, or absent so that reading
\* response.data.status throws and the catch answers.
NewsResponses(hasData) ==
  IF hasData THEN <<Response(200, "", "articles")>>
  ELSE <<Response(500, "NewsAPI request failed", "details")>>

NewsResolved ==
  /\ pc = "pending" /\ req.ep = "news"
  /\ \E hasData \in BOOLEAN :
       /\ reply' = [kind |-> "resolved", hasData |-> hasData]
       /\ res' = res \o NewsResponses(hasData)
  /\ pc' = "done"
  /\ UNCHANGED <<env, proc, diag, req, calls>>

\* axios.get rejected (network error, timeout, non-2xx).
NewsRejected ==
  /\ pc = "pending" /\ req.ep = "news"
  /\ reply' = [kind |-> "rejected"]
  /\ res' = res \o <<Response(500, "NewsAPI request failed", "details")>>
  /\ pc' = "done"
  /\ UNCHANGED <<env, proc, diag, req, calls>>

\* clamp(n, lo, hi) on integers
Clamp(n, lo, hi) == IF n < lo THEN lo ELSE IF n > hi THEN hi ELSE n

\* C1: for every `count` query value the page size forwarded to the news
\* provider is clamp(count, 1, 20), and 3 when count is missing (absent or
\* empty) or non-numeric (Number(count) is NaN).
C1_PageSizeIsClampedCount ==
  (req.ep = "news" /\ calls # <<>>) =>
    LET c == req.query.count
        n == Number(c)
    IN calls[1].pageSize =
         IF c = Undef \/ c = JStr(<<>>) \/ n.nan THEN JNum(3)
         ELSE JNum(Clamp(n.v, 1, 20))

\* ----------------------------------------------------------------- speak
\* String.prototype.replaceAll(ch, rep) for a one-character pattern.
RECURSIVE ReplaceAll(_, _, _)
ReplaceAll(str, ch, rep) ==
  IF str = <<>> THEN <<>>
  ELSE (IF Head(str) = ch THEN rep ELSE <<Head(str)>>) \o ReplaceAll(Tail(str), ch, rep)

AmpEntity == <<"&", "a", "m", "p", ";">>
LtEntity == <<"&", "l", "t", ";">>
GtEntity == <<"&", "g", "t", ";">>
QuotEntity == <<"&", "q", "u", "o", "t", ";">>
AposEntity == <<"&", "a", "p", "o", "s", ";">>

\* The mutant replaces "&" last, after the entities have been inserted.
escapeXmlMutant(str) ==
  ReplaceAll(
    ReplaceAll(
      ReplaceAll(
        ReplaceAll(
          ReplaceAll(str, "<", LtEntity),
          ">", GtEntity),
        "\"", QuotEntity),
      "'", AposEntity),
    "&", AmpEntity)

escapeXml(str) ==
  ReplaceAll(
    ReplaceAll(
      ReplaceAll(
        ReplaceAll(
          ReplaceAll(str, "&", AmpEntity),
          "<", LtEntity),
        ">", GtEntity),
      "\"", QuotEntity),
    "'", AposEntity)

ratePercentToSsmlRate(ratePercent) ==
  LET r == MathMax(JNum(60), MathMin(JNum(140), Number(Or(ratePercent, JNum(100)))))
  IN IF ~r.nan /\ r.v <= 80 THEN "x-slow"
     ELSE IF ~r.nan /\ r.v <= 95 THEN "slow"
     ELSE IF ~r.nan /\ r.v <= 110 THEN "medium"
     ELSE IF ~r.nan /\ r.v <= 125 THEN "fast"
     ELSE "x-fast"

\* Math.max(0, Math.min(2000, Number(pauseMs || 0))); the mutant leaves out
\* the upper limit.
safePauseMutant(pauseMs) == MathMax(JNum(0), Number(Or(pauseMs, JNum(0))))
safePause(pauseMs) == MathMax(JNum(0), MathMin(JNum(2000), Number(Or(pauseMs, JNum(0)))))

\* `<break time="${safePause}ms"/>`
BreakMarker(pause) ==
  <<"<", "b", "r", "e", "a", "k", " ", "t", "i", "m", "e", "=", "\"">>
    \o NumberToString(pause) \o <<"m", "s", "\"", "/", ">">>

\* The SSML document: the template is fixed, so it is given by the prosody
\* rate attribute and the body placed inside the prosody element.
buildHindiSsml(text, ratePercent, pauseMs) ==
  LET rateTag == ratePercentToSsmlRate(ratePercent)
      pause == safePause(pauseMs)
      words == SplitWords(ToStr(text))
      joiner == IF ~pause.nan /\ pause.v > 0 THEN BreakMarker(pause) ELSE <<" ">>
      \* words.map(escapeXml).join(joiner)
      body == Join([i \in 1..Len(words) |-> escapeXml(words[i])], joiner)
  IN [rate |-> rateTag, body |-> body]

\* const { text, rate = 100, pauseMs = 0 } = req.body || {}
Default(x, d) == IF x = Undef THEN d ELSE x

\* if (!text) return res.status(400)...; the mutant tests only for undefined
\* and goes on without returning.
SpeakEntryMutant(body, setupOk) ==
  LET ssml == buildHindiSsml(body.text, Default(body.rate, JNum(100)),
                             Default(body.pauseMs, JNum(0)))
  IN [res |-> IF body.text = Undef THEN <<Response(400, "Missing text", "")>> ELSE <<>>,
      calls |-> <<[api |-> "speech", ssml |-> ssml]>>,
      pc |-> "pending"]

\* The handler up to the return of speakSsmlAsync: the responses sent, the
\* outbound calls started and where the request then stands.  setupOk is FALSE
\* when building the speech configuration or the synthesizer throws.
SpeakEntry(body, setupOk) ==
  IF ~Truthy(body.text)
  THEN [res |-> <<Response(400, "Missing text", "")>>, calls |-> <<>>, pc |-> "done"]
  ELSE LET ssml == buildHindiSsml(body.text, Default(body.rate, JNum(100)),
                                  Default(body.pauseMs, JNum(0)))
       IN IF ~setupOk
          THEN [res |-> <<Response(500, "Speech setup error", "details")>>,
                calls |-> <<>>, pc |-> "done"]
          ELSE [res |-> <<>>, calls |-> <<[api |-> "speech", ssml |-> ssml]>>,
                pc |-> "pending"]

SpeakRequest(inputs) ==
  /\ Accepting
  /\ \E body \in inputs, setupOk \in BOOLEAN :
       LET e == SpeakEntry(body, setupOk)
       IN /\ req' = [ep |-> "speak", body |-> body]
          /\ res' = e.res
          /\ calls' = e.calls
          /\ pc' = e.pc
  /\ UNCHANGED <<env, proc, diag, reply>>

\* The success callback with its `return` after the first answer left out.
SpeakResultResponsesMutant(completed, audioOk) ==
  (IF ~completed THEN <<Response(500, "Speech not completed", "reason")>> ELSE <<>>)
    \o (IF audioOk THEN <<Response(200, "", "audio/mpeg")>>
        ELSE <<Response(500, "Speech handling error", "details")>>)

\* The success callback of speakSsmlAsync: completed says whether
\* result.reason is SynthesizingAudioCompleted, audioOk whether
\* Buffer.from(result.audioData) and the sending succeed; if not, the catch
\* of the callback answers.
SpeakResultResponses(completed, audioOk) ==
  IF ~completed THEN <<Response(500, "Speech not completed", "reason")>>
  ELSE IF audioOk THEN <<Response(200, "", "audio/mpeg")>>
  ELSE <<Response(500, "Speech handling error", "details")>>

SpeakResult ==
  /\ pc = "pending" /\ req.ep = "speak"
  /\ \E completed \in BOOLEAN, audioOk \in BOOLEAN :
       /\ reply' = [kind |-> "result", completed |-> completed, audioOk |-> audioOk]
       /\ res' = res \o SpeakResultResponses(completed, audioOk)
  /\ pc' = "done"
  /\ UNCHANGED <<env, proc, diag, req, calls>>

\* The error callback of speakSsmlAsync.
SpeakError ==
  /\ pc = "pending" /\ req.ep = "speak"
  /\ reply' = [kind |-> "error"]
  /\ res' = res \o <<Response(500, "Speech error", "details")>>
  /\ pc' = "done"
  /\ UNCHANGED <<env, proc, diag, req, calls>>

SpeakBody(text, rate, pauseMs) == [text |-> text, rate |-> rate, pauseMs |-> pauseMs]

TextChars == {"&", "<", ">", "\"", "'", ";", "a", " "}
WordChars == {"a", "<", " "}
NumberStrings == {JStr(<<>>), JStr(<<"z">>), JStr(<<"9", "0">>)}
RateInputs == {Undef} \cup {JNum(n) : n \in (0 - RateSlack)..(140 + RateSlack)} \cup NumberStrings
PauseInputs ==
  {Undef} \cup {JNum(n) : n \in (0 - PauseSlack)..PauseSlack}
    \cup {JNum(n) : n \in (2000 - PauseSlack)..(2000 + PauseSlack)} \cup NumberStrings

\* Three slices of the request bodies: every short text, every rate, and every
\* pause with every short text of several words.
SpeakInputs ==
  {SpeakBody(text, Undef, p) :
     text \in {Undef} \cup {JStr(str) : str \in StrsUpTo(TextChars, MaxTextLen)},
     p \in {Undef, JNum(500)}}
  \cup {SpeakBody(JStr(<<"a", " ", "a">>), r, Undef) : r \in RateInputs}
  \cup {SpeakBody(JStr(str), Undef, p) :
          str \in StrsUpTo(WordChars, MaxWordsLen), p \in PauseInputs}

SpeakCalled == req.ep = "speak" /\ calls # <<>>

\* The prosody tier of a rate percentage.
Tier(r) ==
  IF r <= 80 THEN "x-slow"
  ELSE IF r <= 95 THEN "slow"
  ELSE IF r <= 110 THEN "medium"
  ELSE IF r <= 125 THEN "fast"
  ELSE "x-fast"

\* C2: for every rate of /api/speak (0, negative and out-of-range values
\* included; missing means 100) the prosody tier in the SSML is the tier of
\* clamp(rate, 60, 140).
C2_TierOfClampedRate ==
  SpeakCalled =>
    LET r == req.body.rate
    IN /\ r = Undef => calls[1].ssml.rate = Tier(100)
       /\ (r.t = "number" /\ ~r.nan) => calls[1].ssml.rate = Tier(Clamp(r.v, 60, 140))

\* The pause a request asks for: 0 when pauseMs is missing, its value when it
\* is a number or a numeric string, and none (-1) when it is not numeric.
RequestedPause(p) ==
  IF p = Undef THEN 0 ELSE IF Number(p).nan THEN -1 ELSE Clamp(Number(p).v, 0, 2000)

CountChar(str, ch) == Cardinality({i \in 1..Len(str) : str[i] = ch})

\* C3: with the effective pause clamp(pauseMs, 0, 2000), the body is the
\* escaped words joined by one space when the pause is 0, and when it is
\* greater it has one break marker of exactly that many milliseconds between
\* every two adjacent words: n-1 markers for n >= 1 words.
C3_PauseJoinsWords ==
  SpeakCalled =>
    LET eff == RequestedPause(req.body.pauseMs)
        split == SplitWords(req.body.text.s)
        words == [i \in 1..Len(split) |-> escapeXml(split[i])]
        body == calls[1].ssml.body
    IN /\ eff = 0 => body = Join(words, <<" ">>)
       /\ eff > 0 =>
            /\ body = Join(words, BreakMarker(JNum(eff)))
            /\ words # <<>> => CountChar(body, "<") = Len(words) - 1

C3_Witness ==
  /\ SpeakCalled
  /\ req.body.pauseMs = JNum(2000 + PauseSlack)
  /\ Len(SplitWords(req.body.text.s)) = 2
  /\ CountChar(calls[1].ssml.body, "<") = 1

Entity(c) ==
  CASE c = "&" -> AmpEntity
    [] c = "<" -> LtEntity
    [] c = ">" -> GtEntity
    [] c = "\"" -> QuotEntity
    [] c = "'" -> AposEntity
    [] OTHER -> <<c>>

\* Every character of the word replaced once, in one pass.
RECURSIVE EscapedOnce(_)
EscapedOnce(word) ==
  IF word = <<>> THEN <<>> ELSE Entity(Head(word)) \o EscapedOnce(Tail(word))

Entities == {AmpEntity, LtEntity, GtEntity, QuotEntity, AposEntity}

OccursAt(str, i, part) ==
  i + Len(part) - 1 <= Len(str) /\ SubSeq(str, i, i + Len(part) - 1) = part

\* C10: each word of the body has every & < > " ' replaced by its entity
\* exactly once; every & of the body begins one of the five entities; and
\* every < > " ' of the body lies inside an inserted break marker.
C10_WordsEscapedOnce ==
  SpeakCalled =>
    LET pause == safePause(Default(req.body.pauseMs, JNum(0)))
        marker == BreakMarker(pause)
        joiner == IF ~pause.nan /\ pause.v > 0 THEN marker ELSE <<" ">>
        body == calls[1].ssml.body
        split == SplitWords(req.body.text.s)
    IN /\ body = Join([i \in 1..Len(split) |-> EscapedOnce(split[i])], joiner)
       /\ \A i \in 1..Len(body) :
            /\ body[i] = "&" => \E e \in Entities : OccursAt(body, i, e)
            /\ body[i] \in {"<", ">", "\"", "'"} =>
                 /\ joiner = marker
                 /\ \E j \in 1..i : i < j + Len(marker) /\ OccursAt(body, j, marker)

C10_Witness ==
  /\ SpeakCalled
  /\ req.body.text = JStr(<<"&", " ", "<">>)
  /\ req.body.pauseMs = JNum(500)
  /\ calls[1].ssml.body = AmpEntity \o BreakMarker(JNum(500)) \o LtEntity

\* ------------------------------------------------------------- summarize
\* Code points of the characters outside ASCII that the alphabets name; every
\* other modelled character is ASCII and stands below all the script ranges.
CodePoint(c) ==
  CASE c = "U+058F" -> 1423
    [] c = "U+0590" -> 1424
    [] c = "U+05D0" -> 1488
    [] c = "U+05FF" -> 1535
    [] c = "U+0600" -> 1536
    [] c = "U+08FF" -> 2303
    [] c = "U+0900" -> 2304
    [] c = "U+097F" -> 2431
    [] c = "U+0980" -> 2432
    [] OTHER -> 97

\* /[\u0590-\u05FF]/.test(line)
hasHebrew(line) == \E i \in 1..Len(line) : CodePoint(line[i]) \in 1424..1535

\* /[\u0900-\u097F]/.test(line); the mutant's range stops one short.
hasDevaMutant(line) == \E i \in 1..Len(line) : CodePoint(line[i]) \in 2304..2430
hasDeva(line) == \E i \in 1..Len(line) : CodePoint(line[i]) \in 2304..2431

\* String.prototype.split("\n"): at least one part, empty parts kept.
RECURSIVE SplitLines(_)
SplitLines(str) ==
  IF \E i \in 1..Len(str) : str[i] = "\n"
  THEN LET k == CHOOSE i \in 1..Len(str) :
                  str[i] = "\n" /\ \A j \in 1..(i - 1) : str[j] # "\n"
       IN <<SubSeq(str, 1, k - 1)>> \o SplitLines(SubSeq(str, k + 1, Len(str)))
  ELSE <<str>>

\* The map callback of the line filter.
FilterLine(line) == IF ~hasHebrew(line) /\ ~hasDeva(line) THEN <<>> ELSE Trim(line)

NonEmpty(str) == str # <<>>

\* result.split("\n").map(...).filter(Boolean).join("\n")
FilterResult(content) ==
  LET lines == SplitLines(content)
  IN Join(SelectSeq([i \in 1..Len(lines) |-> FilterLine(lines[i])], NonEmpty), <<"\n">>)

\* level === "beginner" ? ... : level === "intermediate" ? ... : ...
levelGuide(level) ==
  IF level = JStr(<<"beginner">>) THEN "basic"
  ELSE IF level = JStr(<<"intermediate">>) THEN "richer"
  ELSE "advanced"

\* The handler up to the await of the completion call.
SummarizeEntry(body) ==
  IF ~Truthy(body.text)
  THEN [res |-> <<Response(400, "Missing text", "")>>, calls |-> <<>>, pc |-> "done"]
  ELSE [res |-> <<>>,
        calls |-> <<[api |-> "completion",
                     guide |-> levelGuide(Default(body.level, JStr(<<"beginner">>))),
                     text |-> ToStr(body.text)]>>,
        pc |-> "pending"]

SummarizeRequest(inputs) ==
  /\ Accepting
  /\ \E body \in inputs :
       LET e == SummarizeEntry(body)
       IN /\ req' = [ep |-> "summarize", body |-> body]
          /\ res' = e.res
          /\ calls' = e.calls
          /\ pc' = e.pc
  /\ UNCHANGED <<env, proc, diag, reply>>

\* The handler after the completion resolved.  hasChoice is FALSE when
\* completion.choices[0] is absent, so that reading its message throws and the
\* catch answers; content is the message content, a string or absent.
SummarizeResponses(hasChoice, content) ==
  IF ~hasChoice THEN <<Response(500, "OpenAI error", "details")>>
  ELSE <<Response(200, "", FilterResult(Or(content, JStr(<<>>)).s))>>

ContentChars ==
  {"U+058F", "U+0590", "U+05FF", "U+0600", "U+08FF", "U+0900", "U+097F", "U+0980",
   "a", " ", "\n"}
Contents == {Undef} \cup {JStr(str) : str \in StrsUpTo(ContentChars, MaxContentLen)}

SummarizeResolved(contents) ==
  /\ pc = "pending" /\ req.ep = "summarize"
  /\ \E hasChoice \in BOOLEAN, content \in contents :
       /\ hasChoice \/ content = Undef
       /\ reply' = [kind |-> "resolved", hasChoice |-> hasChoice, content |-> content]
       /\ res' = res \o SummarizeResponses(hasChoice, content)
  /\ pc' = "done"
  /\ UNCHANGED <<env, proc, diag, req, calls>>

\* The completion call rejected.
SummarizeRejected ==
  /\ pc = "pending" /\ req.ep = "summarize"
  /\ reply' = [kind |-> "rejected"]
  /\ res' = res \o <<Response(500, "OpenAI error", "details")>>
  /\ pc' = "done"
  /\ UNCHANGED <<env, proc, diag, req, calls>>

SummarizeBody(text, level) == [text |-> text, level |-> level]

SummarizeInputs ==
  {SummarizeBody(text, level) :
     text \in {Undef, JStr(<<>>), JStr(<<"x">>)},
     level \in {Undef, JStr(<<"beginner">>), JStr(<<"intermediate">>), JStr(<<"advanced">>)}}

SummarizeAnswered ==
  req.ep = "summarize" /\ pc = "done" /\ reply.kind = "resolved" /\ reply.hasChoice

HasScript(line) ==
  \E i \in 1..Len(line) :
    \/ CodePoint(line[i]) >= 1424 /\ CodePoint(line[i]) <= 1535
    \/ CodePoint(line[i]) >= 2304 /\ CodePoint(line[i]) <= 2431

\* C6 as stated: the result is exactly the lines of the completion text, in
\* order, that contain a Hebrew or Devanagari character; an empty result is
\* still a success response.
C6_ResultIsScriptLines ==
  SummarizeAnswered =>
    /\ Len(res) = 1 /\ res[1].status = 200
    /\ res[1].data =
         Join(SelectSeq(SplitLines(Or(reply.content, JStr(<<>>)).s), HasScript), <<"\n">>)

\* C6 amended: the result is those lines, in order, each with its leading and
\* trailing whitespace removed; an empty result is still a success response.
C6_ResultIsTrimmedScriptLines ==
  SummarizeAnswered =>
    /\ Len(res) = 1 /\ res[1].status = 200
    /\ LET kept == SelectSeq(SplitLines(Or(reply.content, JStr(<<>>)).s), HasScript)
       IN res[1].data = Join([i \in 1..Len(kept) |-> Trim(kept[i])], <<"\n">>)

C6_Witness ==
  /\ SummarizeAnswered
  /\ reply.content = JStr(<<"a", "\n", "U+097F">>)
  /\ res[1].data = <<"U+097F">>

C6_EmptyWitness ==
  /\ SummarizeAnswered
  /\ reply.content = JStr(<<"a", "\n", "a">>)
  /\ res = <<Response(200, "", <<>>)>>

\* --------------------------------------------------------------- wordmap
\* A provider reply is a sequence of lexemes: prose without braces, the
\* opening `{"words":[` and the closing `]}` of the requested document, and
\* entries `{"hi":...,"he":...}` (separators belong to the entries).
Prose == "prose"
OpenWords == "{\"words\":["
CloseWords == "]}"
EntryHebrew == "{\"hi\":\"x\",\"he\":\"U+05D0\"}"
EntryLatin == "{\"hi\":\"x\",\"he\":\"a\"}"
EntryNoHe == "{\"hi\":\"x\"}"
EntryUnprintable == "{\"hi\":\"x\",\"he\":{\"toString\":0}}"
EntryLexemes == {EntryHebrew, EntryLatin, EntryNoHe, EntryUnprintable}
Lexemes == {Prose, OpenWords, CloseWords} \cup EntryLexemes

\* item.he of a parsed entry
EntryHe(lexeme) ==
  CASE lexeme = EntryHebrew -> JStr(<<"U+05D0">>)
    [] lexeme = EntryLatin -> JStr(<<"a">>)
    [] lexeme = EntryUnprintable -> Unprintable
    [] OTHER -> Undef

\* JSON.parse: [ok, isArray, words].  A document is the requested object with
\* its entries, or a single entry (an object without a words array).
JsonParse(raw) ==
  IF /\ Len(raw) >= 2
     /\ raw[1] = OpenWords
     /\ raw[Len(raw)] = CloseWords
     /\ \A i \in 2..(Len(raw) - 1) : raw[i] \in EntryLexemes
  THEN [ok |-> TRUE, isArray |-> TRUE, words |-> SubSeq(raw, 2, Len(raw) - 1)]
  ELSE IF Len(raw) = 1 /\ raw[1] \in EntryLexemes
  THEN [ok |-> TRUE, isArray |-> FALSE, words |-> <<>>]
  ELSE [ok |-> FALSE, isArray |-> FALSE, words |-> <<>>]

\* raw.indexOf("{") and raw.lastIndexOf("}") as lexeme positions, 0 for none:
\* "{" is the first character of an opening or an entry, "}" the last of a
\* closing or an entry.
IndexOfOpenBrace(raw) ==
  IF \E i \in 1..Len(raw) : raw[i] \in EntryLexemes \cup {OpenWords}
  THEN CHOOSE i \in 1..Len(raw) :
         /\ raw[i] \in EntryLexemes \cup {OpenWords}
         /\ \A j \in 1..(i - 1) : raw[j] \notin EntryLexemes \cup {OpenWords}
  ELSE 0

LastIndexOfCloseBrace(raw) ==
  IF \E i \in 1..Len(raw) : raw[i] \in EntryLexemes \cup {CloseWords}
  THEN CHOOSE i \in 1..Len(raw) :
         /\ raw[i] \in EntryLexemes \cup {CloseWords}
         /\ \A j \in (i + 1)..Len(raw) : raw[j] \notin EntryLexemes \cup {CloseWords}
  ELSE 0

\* The mutant has no fallback.
parsedMutant(raw) == JsonParse(raw)

\* The nested try: JSON.parse(raw), else JSON.parse of the slice from the
\* first "{" to the last "}", else a throw (ok is FALSE).  start >= 0 &&
\* end > start on characters is start >= 1 /\ end >= start on lexemes: one
\* lexeme holding both braces is an entry, whose "}" comes after its "{".
parsed(raw) ==
  IF JsonParse(raw).ok THEN JsonParse(raw)
  ELSE LET start == IndexOfOpenBrace(raw)
           end == LastIndexOfCloseBrace(raw)
       IN IF start >= 1 /\ end >= start
          THEN JsonParse(SubSeq(raw, start, end))
          ELSE [ok |-> FALSE, isArray |-> FALSE, words |-> <<>>]

\* item && item.he is truthy and String(item.he) throws
GlossThrows(out, idx) == idx <= Len(out) /\ EntryHe(out[idx]) = Unprintable

\* The map callback of normalized (for an entry whose gloss converts).
NormalizedEntry(w, out, idx) ==
  LET he == IF idx <= Len(out) /\ Truthy(EntryHe(out[idx]))
            THEN ToStr(EntryHe(out[idx])) ELSE <<>>
  IN [hi |-> w, he |-> IF hasHebrew(he) THEN he ELSE <<>>]

\* The mutant maps over the provider's entries instead of the input words.
normalizedMutant(words, out) ==
  [idx \in 1..Len(out) |-> NormalizedEntry(IF idx <= Len(words) THEN words[idx] ELSE <<>>, out, idx)]

\* words.map((w, idx) => ...)
normalized(words, out) ==
  [idx \in 1..Len(words) |-> NormalizedEntry(words[idx], out, idx)]

\* The handler up to the await of the completion call.
WordmapEntry(body) ==
  IF ~Truthy(body.sentence)
  THEN [res |-> <<Response(400, "Missing sentence", "")>>, calls |-> <<>>, pc |-> "done"]
  ELSE LET words == SplitWords(ToStr(body.sentence))
       IN IF Len(words) = 0
          THEN [res |-> <<Response(200, "", <<>>)>>, calls |-> <<>>, pc |-> "done"]
          ELSE [res |-> <<>>, calls |-> <<[api |-> "completion", words |-> words]>>,
                pc |-> "pending"]

WordmapRequest(inputs) ==
  /\ Accepting
  /\ \E body \in inputs :
       LET e == WordmapEntry(body)
       IN /\ req' = [ep |-> "wordmap", body |-> body]
          /\ res' = e.res
          /\ calls' = e.calls
          /\ pc' = e.pc
  /\ UNCHANGED <<env, proc, diag, reply>>

\* The handler after the completion resolved: the inner and the outer try.
WordmapResponses(words, hasChoice, content) ==
  LET raw == Or(content, JStr(<<>>)).s
      p == parsed(raw)
      out == IF p.isArray THEN p.words ELSE <<>>
  IN IF ~hasChoice \/ ~p.ok \/ \E idx \in 1..Len(words) : GlossThrows(out, idx)
     THEN <<Response(500, "Wordmap error", "details")>>
     ELSE <<Response(200, "", normalized(words, out))>>

WordmapResolved(raws) ==
  /\ pc = "pending" /\ req.ep = "wordmap"
  /\ \E hasChoice \in BOOLEAN, content \in raws :
       /\ hasChoice \/ content = Undef
       /\ reply' = [kind |-> "resolved", hasChoice |-> hasChoice, content |-> content]
       /\ res' = res \o WordmapResponses(calls[1].words, hasChoice, content)
  /\ pc' = "done"
  /\ UNCHANGED <<env, proc, diag, req, calls>>

\* The completion call rejected.
WordmapRejected ==
  /\ pc = "pending" /\ req.ep = "wordmap"
  /\ reply' = [kind |-> "rejected"]
  /\ res' = res \o <<Response(500, "Wordmap error", "details")>>
  /\ pc' = "done"
  /\ UNCHANGED <<env, proc, diag, req, calls>>

SentenceChars == {"a", "b", " "}
WordmapInputs ==
  {[sentence |-> x] : x \in {Undef} \cup {JStr(str) : str \in StrsUpTo(SentenceChars, MaxSentenceLen)}}
Raws == {Undef} \cup {JStr(raw) : raw \in StrsUpTo(Lexemes, MaxRawLen)}

\* The provider answered /api/wordmap with a message (content may be absent).
WordmapAnswered ==
  req.ep = "wordmap" /\ pc = "done" /\ reply.kind = "resolved" /\ reply.hasChoice

\* Whether a reply yields a JSON value: JSON.parse succeeds on the whole
\* reply, or the reply has a "{" with a "}" after it and the text from the
\* first "{" to the last "}" is JSON.  [whole, slice, entries]: the two
\* attempts, and the entries of the words array of the value obtained.
Attempts(raw) ==
  LET whole == JsonParse(raw)
      i == IndexOfOpenBrace(raw)
      j == LastIndexOfCloseBrace(raw)
      cut == IF i >= 1 /\ i <= j THEN JsonParse(SubSeq(raw, i, j)) ELSE whole
      doc == IF whole.ok THEN whole ELSE cut
  IN [whole |-> whole.ok,
      slice |-> i >= 1 /\ i <= j /\ cut.ok,
      entries |-> IF doc.ok /\ doc.isArray THEN doc.words ELSE <<>>]

\* C4: a successful /api/wordmap response to a provider reply has one entry
\* per whitespace-separated word of the sentence, entry i has hi equal to the
\* i-th word, and an entry with no provider gloss at its index has an empty he.
C4_OneEntryPerWord ==
  (WordmapAnswered /\ res[1].status = 200) =>
    LET words == SplitWords(req.body.sentence.s)
        data == res[1].data
        entries == Attempts(Or(reply.content, JStr(<<>>)).s).entries
    IN /\ Len(data) = Len(words)
       /\ \A i \in 1..Len(words) :
            /\ data[i].hi = words[i]
            /\ (i > Len(entries) \/ entries[i] = EntryNoHe) => data[i].he = <<>>

\* Two different words, and a reply wrapped in prose that glosses only the
\* first one.
C4_Witness ==
  /\ WordmapAnswered
  /\ req.body.sentence = JStr(<<"b", " ", "a">>)
  /\ reply.content = JStr(<<Prose, OpenWords, EntryHebrew, CloseWords>>)
  /\ res = <<Response(200, "",
               <<[hi |-> <<"b">>, he |-> <<"U+05D0">>], [hi |-> <<"a">>, he |-> <<>>]>>)>>

\* C8 as stated: the request fails with 500 "Wordmap error" exactly when
\* neither the whole reply nor its brace slice parses, and succeeds with 200
\* whenever either does.
C8_FailsExactlyWhenUnparseable ==
  WordmapAnswered =>
    LET a == Attempts(Or(reply.content, JStr(<<>>)).s)
    IN /\ Len(res) = 1
       /\ IF a.whole \/ a.slice
          THEN res[1].status = 200
          ELSE res[1] = Response(500, "Wordmap error", "details")

\* C8 amended: the request fails with 500 "Wordmap error" when neither the
\* whole reply nor its brace slice parses, and also when the gloss of an entry
\* at the index of an input word is an object that cannot be converted to a
\* string; in every other case where either attempt yields a JSON value it
\* succeeds with 200.
C8_FailsWhenUnparseableOrUnprintable ==
  WordmapAnswered =>
    LET a == Attempts(Or(reply.content, JStr(<<>>)).s)
        n == Len(SplitWords(req.body.sentence.s))
        unprintable == \E i \in 1..n : i <= Len(a.entries) /\ a.entries[i] = EntryUnprintable
    IN /\ Len(res) = 1
       /\ IF (a.whole \/ a.slice) /\ ~unprintable
          THEN res[1].status = 200
          ELSE res[1] = Response(500, "Wordmap error", "details")

\* The brace slice rescues a reply wrapped in prose.
C8_Witness ==
  /\ WordmapAnswered
  /\ reply.content = JStr(<<Prose, OpenWords, EntryLatin, CloseWords>>)
  /\ res[1].status = 200

\* ------------------------------------------------------------ the server
Next ==
  \/ Startup
  \/ Finish
  \/ Health
  \/ NewsRequest(CountInputs)
  \/ NewsResolved
  \/ NewsRejected
  \/ SummarizeRequest(SummarizeInputs)
  \/ SummarizeResolved(Contents)
  \/ SummarizeRejected
  \/ SpeakRequest(SpeakInputs)
  \/ SpeakResult
  \/ SpeakError
  \/ WordmapRequest(WordmapInputs)
  \/ WordmapResolved(Raws)
  \/ WordmapRejected

Spec == Init /\ [][Next]_vars

\* The required input of the request is missing.
MissingInput ==
  \/ req.ep \in {"summarize", "speak"} /\ req.body.text = Undef
  \/ req.ep = "wordmap" /\ req.body.sentence = Undef

\* C5: a request to /api/summarize or /api/speak without text, or to
\* /api/wordmap without sentence, is answered with status 400 and at no point
\* of its handling has an outbound provider call been started or answered.
C5_MissingInputIs400WithoutCall ==
  MissingInput =>
    /\ calls = <<>>
    /\ reply = NoReply
    /\ pc = "done"
    /\ Len(res) = 1 /\ res[1].status = 400

C5_Witness ==
  /\ req.ep = "speak"
  /\ req.body.text = Undef
  /\ req.body.pauseMs = JNum(500)
  /\ res = <<Response(400, "Missing text", "")>>
  /\ calls = <<>>

\* C7: no request is ever answered twice, and once its handler has run to the
\* end (the outbound call completed or failed, or no call was needed) exactly
\* one response has been sent.
C7_ExactlyOneResponse ==
  /\ Len(res) <= 1
  /\ pc = "done" => Len(res) = 1
  /\ pc = "pending" => res = <<>>

\* The synthesis completed, preparing the audio threw, and the catch inside
\* the success callback answered.
C7_Witness ==
  /\ req.ep = "speak" /\ pc = "done"
  /\ reply = [kind |-> "result", completed |-> TRUE, audioOk |-> FALSE]
  /\ res = <<Response(500, "Speech handling error", "details")>>

\* A required configuration value is absent or empty.
IncompleteConfig == \E k \in RequiredNames : env[k] = Undef \/ env[k] = JStr(<<>>)

\* C9: with a required configuration value absent or empty the process exits
\* with a diagnostic naming the missing values, never listens and serves no
\* request; with all four present it reaches the listening state.
C9_IncompleteConfigNeverListens ==
  /\ IncompleteConfig => proc # "listening" /\ req = NoRequest /\ res = <<>>
  /\ proc # "loading" => (proc = "listening" <=> ~IncompleteConfig)
  /\ proc = "exited" =>
       {diag[i] : i \in 1..Len(diag)} =
         {k \in RequiredNames : env[k] = Undef \/ env[k] = JStr(<<>>)}
  /\ proc = "listening" => diag = <<>>

\* Only the speech region is empty: the process exited naming it.
C9_Witness ==
  /\ proc = "exited"
  /\ env["AZURE_SPEECH_REGION"] = JStr(<<>>)
  /\ diag = <<"AZURE_SPEECH_REGION">>

====
